---- MODULE Spec2Model ----
(***************************************************************************)
(* The three binaries of network-faucet-deployment as one state machine:   *)
(*   src/main.rs        mint, fixed 15 s sleep, consume                    *)
(*   src/bin/mint.rs    mint, wait_for_transaction, consume, wait, balance *)
(*   src/bin/deploy.rs  deploy the faucet with a custom script             *)
(* and wait_for_transaction (src/bin/mint.rs:44-84) called on its own with *)
(* an arbitrary transaction id.  The ledger and the client library are the *)
(* environment: the network status of a transaction, the client's local    *)
(* store (the synchronized view), and calls that may fail.                 *)
(***************************************************************************)
EXTENDS Integers, Sequences, FiniteSets, TLC

VARIABLES
    entry,       \* which program runs: "main", "mint", "deploy" or "wait"
    pc,          \* position of the (single) task in that program
    net,         \* the network's status of each transaction id
    store,       \* the client's local store: status of each id as of the last sync
    block,       \* the network's latest block number
    syncBlock,   \* block number of the last completed sync_state
    wTx,         \* wait_for_transaction: its transaction_id argument
    wRet,        \* where the caller continues after an Ok
    lastLookup,  \* what get_transactions(..).pop() gave in this iteration
    wRes,        \* the value wait_for_transaction returned
    synced,      \* a sync_state completed since the call began / the last lookup
    viewAtCall,  \* the synchronized view when wait_for_transaction was entered
    printed,     \* block numbers written by "Transaction committed at block .."
    confirmed,   \* ids for which wait_for_transaction returned Ok
    arg,         \* arguments of the last create_p2id_note_exact / request build
    p2id,        \* p2id_mint_output_note: Result<Note, NoteError>
    mintNote,    \* mint_note
    req,         \* the TransactionRequest submitted under each transaction id
    submits,     \* calls of submit_new_transaction made for each transaction
    chain,       \* notes on the ledger that can be consumed
    bal,         \* the ledger's vault balances: holder -> faucet -> amount
    bal0,        \* the balances when the program started
    vault,       \* the client's view of alice's vault, as of the last sync
    shown,       \* balance printed by "Vault assets: .."
    finalSynced, \* the sync_state after the consume's confirmation completed
    naps         \* sleeps of wait_for_transaction since its last lookup

ext == <<arg, p2id, mintNote, req, submits, chain, bal, bal0, vault, shown,
         finalSynced, naps>>

vars == <<entry, pc, net, store, block, syncBlock, wTx, wRet, lastLookup, wRes,
          synced, viewAtCall, printed, confirmed, arg, p2id, mintNote, req, submits,
          chain, bal, bal0, vault, shown, finalSynced, naps>>

\* ------------------------------------------------------------------ bounds
MaxBlock == 3
MaxStartBlock == 1
MaxOtherBalance == 1

\* ------------------------------------------------------------------ values
TxIds == {"mintTx", "consumeTx", "deployTx"}
Entries == {"main", "mint", "deploy", "wait"}
\* create_p2id_note_exact, and a request build and submission, on arguments of any kind
Harnesses == {"note", "request"}
\* miden_client DiscardCause, carried by TransactionStatus::Discarded
Causes == {"Expired", "InputConsumed", "DiscardedInitialState", "Stale"}

Absent == [k |-> "Absent", b |-> 0, c |-> "-"]
Pending == [k |-> "Pending", b |-> 0, c |-> "-"]
Committed(h) == [k |-> "Committed", b |-> h, c |-> "-"]
Discarded(cause) == [k |-> "Discarded", b |-> 0, c |-> cause]
LookupErr == [k |-> "Err", b |-> 0, c |-> "-"]
NotRun == [k |-> "NotRun", b |-> 0, c |-> "-"]

Terminal(s) == s.k \in {"Committed", "Discarded"}

\* Result<(), Box<dyn Error + Send + Sync>> of wait_for_transaction
NoResult == [k |-> "None", ty |-> "-", msg |-> <<>>, val |-> <<>>]
OkUnit == [k |-> "Ok", ty |-> "()", msg |-> <<>>, val |-> <<>>]
ErrSync == [k |-> "Err", ty |-> "ClientError", msg |-> <<"sync_state">>, val |-> <<>>]
ErrFetch ==
    [k |-> "Err", ty |-> "String",
     msg |-> <<"Failed to fetch transaction status while waiting for commitment: ",
               "StoreError">>,
     val |-> <<>>]
\* the ClientError get_transactions fails with, and its Display text
FetchFailure == [k |-> "Err", ty |-> "ClientError", msg |-> <<"StoreError">>, val |-> <<>>]
ErrNotFound(t) ==
    [k |-> "Err", ty |-> "String",
     msg |-> <<"Transaction with ID ", t, " not found while waiting for commitment">>,
     val |-> <<>>]
ErrDiscarded(cause) ==
    [k |-> "Err", ty |-> "String",
     msg |-> <<"Transaction was discarded while waiting for commitment. Cause: ", cause>>,
     val |-> <<>>]

WaitPcs == {"w_sync", "w_lookup", "w_match", "w_sleep"}

\* ------------------------------------------------------------ accounts
\* An AccountId is its prefix and its suffix.
AccountIds == {[prefix |-> p, suffix |-> s] : p \in {"aP", "fP"}, s \in {"aS", "fS"}}
AliceId == [prefix |-> "aP", suffix |-> "aS"]
FaucetId == [prefix |-> "fP", suffix |-> "fS"]
OtherFaucetId == [prefix |-> "fP", suffix |-> "aS"]
BobId == [prefix |-> "aP", suffix |-> "fS"]
Faucets == {FaucetId, OtherFaucetId}
\* AccountId::new_unchecked([stored_owner_word[3], stored_owner_word[2]]): the owner in
\* the faucet's storage slot 2; main.rs created the faucet with alice as its owner
StoredOwnerId == IF entry = "main" THEN AliceId ELSE BobId
\* the account that executes the mint transaction
MintAccount == IF entry = "main" THEN FaucetId ELSE StoredOwnerId

\* ------------------------------------------------------------ notes
Amount == 50
Aux == 27
\* Mutant: the run mints half the amount
amountHalved == Amount \div 2
\* let amount = 50;
amount == Amount

NoteTypes == {"Public", "Private"}
\* Word::default() is "zero"; client.rng().draw_word() is any word
Serials == {"zero", "drawn"}
AuxValues == {0, Aux}

FungibleAsset(faucet, n) == [faucet |-> faucet, amount |-> n]
AssetLists ==
    {<<FungibleAsset(FaucetId, Amount)>>,
     <<FungibleAsset(FaucetId, 25), FungibleAsset(OtherFaucetId, 25)>>,
     <<FungibleAsset(FaucetId, Amount), FungibleAsset(FaucetId, 25)>>}

\* NoteAssets::new: two assets of one faucet are rejected
NoteAssetsOk(assets) ==
    \A i, j \in 1..Len(assets) : i # j => assets[i].faucet # assets[j].faucet

\* NoteTag::from_account_id: the tag is made of the leading bits of the id's prefix
NoteTagFromAccountId(id) == [kind |-> "account", bits |-> id.prefix]

\* NoteRecipient::digest: the hash of (serial number, script, inputs), collision-free
RecipientDigest(note) ==
    [serial |-> note.serial, script |-> note.script, inputs |-> note.inputs]

NullNote ==
    [assets |-> <<>>, sender |-> AliceId, ntype |-> "-", tag |-> NoteTagFromAccountId(AliceId),
     hint |-> "-", aux |-> 0, serial |-> "-", script |-> "-", inputs |-> <<>>]
NotBuilt == [st |-> "none", note |-> NullNote]
NoteErr == [st |-> "err", note |-> NullNote]

\* Mutant: the two note inputs are given prefix first
CreateP2idNoteSwapped(sender, target, assets, ntype, aux, serial) ==
    IF ~NoteAssetsOk(assets) THEN NoteErr
    ELSE [st |-> "ok",
          note |-> [assets |-> assets, sender |-> sender, ntype |-> ntype,
                    tag |-> NoteTagFromAccountId(target), hint |-> "always", aux |-> aux,
                    serial |-> serial, script |-> "P2ID",
                    inputs |-> <<target.prefix, target.suffix>>]]

\* create_p2id_note_exact
CreateP2idNoteExact(sender, target, assets, ntype, aux, serial) ==
    IF ~NoteAssetsOk(assets) THEN NoteErr
    ELSE [st |-> "ok",
          note |-> [assets |-> assets, sender |-> sender, ntype |-> ntype,
                    tag |-> NoteTagFromAccountId(target), hint |-> "always", aux |-> aux,
                    serial |-> serial, script |-> "P2ID",
                    inputs |-> <<target.suffix, target.prefix>>]]

NoteArgs ==
    [sender : AccountIds, target : AccountIds, assets : AssetLists,
     ntype : NoteTypes, aux : AuxValues, serial : Serials]
BuildP2id(a) == CreateP2idNoteExact(a.sender, a.target, a.assets, a.ntype, a.aux, a.serial)

\* the arguments main passes: faucet, alice, [mint_asset], note type, aux, serial_num
MainNoteArgs(serial) ==
    [sender |-> FaucetId, target |-> AliceId,
     assets |-> <<FungibleAsset(FaucetId, amount)>>,
     ntype |-> IF entry = "main" THEN "Public" ELSE "Private",
     aux |-> Aux, serial |-> serial]
MainSerials == IF entry = "main" THEN {"zero"} ELSE Serials

\* miden_lib create_mint_note(faucet, owner, recipient, tag, amount, aux, aux, rng)
NoMintNote ==
    [faucet |-> FaucetId, sender |-> AliceId, recipient |-> RecipientDigest(NullNote),
     tag |-> NoteTagFromAccountId(AliceId), amount |-> 0, aux1 |-> 0, aux2 |-> 0]
CreateMintNote(faucet, owner, recipient, tag, n, aux1, aux2) ==
    [faucet |-> faucet, sender |-> owner, recipient |-> recipient, tag |-> tag,
     amount |-> n, aux1 |-> aux1, aux2 |-> aux2]

\* Mutant: the digest handed to the mint note is that of a note with another serial
MintRecipientOfOtherNote(note) == RecipientDigest([note EXCEPT !.serial = "other"])
\* let recipient = p2id_mint_output_note.recipient().digest();
MintRecipient(note) == RecipientDigest(note)

\* ------------------------------------------------------------ requests
NoRequest == [outputs |-> <<>>, inputs |-> <<>>, script |-> <<>>, account |-> AliceId]
\* TransactionRequestBuilder::new().own_output_notes(vec![OutputNote::Full(mint_note)])
MintRequest(m) == [NoRequest EXCEPT !.outputs = <<m>>, !.account = MintAccount]
\* .unauthenticated_input_notes(vec![(p2id_mint_output_note, None)])
ConsumeRequest(n) == [NoRequest EXCEPT !.inputs = <<n>>, !.account = AliceId]
\* .custom_script(tx_script)
DeployRequest == [NoRequest EXCEPT !.script = <<"deploy.masm">>, !.account = FaucetId]

HarnessMintNote ==
    CreateMintNote(FaucetId, BobId, RecipientDigest(NullNote),
                   NoteTagFromAccountId(AliceId), Amount, Aux, Aux)
AnyRequests ==
    [outputs : {<<>>, <<HarnessMintNote>>}, inputs : {<<>>, <<NullNote>>},
     script : {<<>>, <<"any.masm">>}, account : {AliceId}]

\* Mutant: build() accepts any request
RequestBuildsUnchecked(r) == TRUE
\* TransactionRequestBuilder::build(): a request with no output note, no input note
\* and no script is refused
RequestBuilds(r) == Len(r.outputs) > 0 \/ Len(r.inputs) > 0 \/ Len(r.script) > 0

\* ------------------------------------------------------ the ledger's notes
\* the note a committed mint puts on the ledger: the faucet's asset under the digest
FundedNote(m) ==
    [recipient |-> m.recipient, asset |-> FungibleAsset(m.faucet, m.amount)]
\* an input note can be consumed by the account its inputs name, when a note with its
\* recipient digest is on the ledger
Consumable(ch, acct, n) ==
    /\ n.inputs = <<acct.suffix, acct.prefix>>
    /\ \E c \in ch : c.recipient = RecipientDigest(n)
Fundable(ch, r) == \A i \in 1..Len(r.inputs) : Consumable(ch, r.account, r.inputs[i])
SpentBy(ch, r) ==
    {c \in ch : \E i \in 1..Len(r.inputs) : c.recipient = RecipientDigest(r.inputs[i])}
ChainAfter(ch, r) ==
    (ch \ SpentBy(ch, r)) \cup {FundedNote(r.outputs[i]) : i \in 1..Len(r.outputs)}
RECURSIVE Credit(_, _, _)
Credit(b, acct, notes) ==
    IF notes = {} THEN b
    ELSE LET c == CHOOSE x \in notes : TRUE
         IN Credit([b EXCEPT ![acct][c.asset.faucet] = @ + c.asset.amount],
                   acct, notes \ {c})
BalAfter(b, ch, r) == Credit(b, r.account, SpentBy(ch, r))

\* ------------------------------------------------------ client library calls
\* Client::sync_state: every locally tracked, still pending transaction takes the
\* network's status; the view moves to the network's latest block.
SyncState(st) ==
    [t \in TxIds |-> IF st[t].k = "Pending" THEN net[t] ELSE st[t]]

\* Client::get_transactions(TransactionFilter::Ids(vec![id])).pop()
Lookup(st, t) == st[t]

\* Client::submit_new_transaction: the transaction is sent and tracked locally
Submitted(f, t) == [f EXCEPT ![t] = Pending]

\* ------------------------------------------------------------------ Init
Init ==
    /\ entry \in Entries \cup Harnesses
    /\ block \in 0..MaxStartBlock
    /\ syncBlock = 0
    /\ lastLookup = NotRun
    /\ wRes = NoResult
    /\ wRet = "done"
    /\ synced = FALSE
    /\ printed = <<>>
    /\ confirmed = {}
    /\ IF entry = "wait"
       THEN /\ pc = "wait_any"
            /\ wTx \in TxIds
            /\ \E tracked \in BOOLEAN :
                 /\ store = [t \in TxIds |-> IF t = wTx /\ tracked THEN Pending ELSE Absent]
                 /\ net = [t \in TxIds |-> IF t = wTx THEN Pending ELSE Absent]
       ELSE /\ pc = IF entry = "note" THEN "note_any"
                    ELSE IF entry = "request" THEN "request_any" ELSE "start"
            /\ IF entry = "request" THEN wTx \in TxIds ELSE wTx = "mintTx"
            /\ store = [t \in TxIds |-> Absent]
            /\ net = [t \in TxIds |-> Absent]
    /\ viewAtCall = <<store, syncBlock>>
    /\ IF entry = "note" THEN arg \in NoteArgs
       ELSE IF entry = "request" THEN arg \in AnyRequests
       ELSE arg = NoRequest
    /\ p2id = NotBuilt
    /\ mintNote = NoMintNote
    /\ req = [t \in TxIds |-> NoRequest]
    /\ submits = [t \in TxIds |-> 0]
    /\ chain = {}
    /\ \E other \in 0..MaxOtherBalance :
         bal = [a \in AccountIds |-> [f \in Faucets |-> IF a = BobId THEN other ELSE 0]]
    /\ bal0 = bal
    /\ vault = bal[AliceId]
    /\ shown = <<>>
    /\ finalSynced = FALSE
    /\ naps = 0

\* ------------------------------------------------------------ the ledger
LedgerCommit(t) ==
    /\ net[t].k = "Pending"
    /\ block < MaxBlock
    /\ Fundable(chain, req[t])
    /\ block' = block + 1
    /\ net' = [net EXCEPT ![t] = Committed(block + 1)]
    /\ chain' = ChainAfter(chain, req[t])
    /\ bal' = BalAfter(bal, chain, req[t])
    /\ UNCHANGED <<entry, pc, store, syncBlock, wTx, wRet, lastLookup, wRes,
                   synced, viewAtCall, printed, confirmed>>
    /\ UNCHANGED <<arg, p2id, mintNote, req, submits, bal0, vault, shown, finalSynced, naps>>

LedgerDiscard(t, cause) ==
    /\ net[t].k = "Pending"
    /\ net' = [net EXCEPT ![t] = Discarded(cause)]
    /\ UNCHANGED <<entry, pc, store, block, syncBlock, wTx, wRet, lastLookup, wRes,
                   synced, viewAtCall, printed, confirmed>>
    /\ UNCHANGED ext

Ledger ==
    \/ \E t \in TxIds : LedgerCommit(t)
    \/ \E t \in TxIds, cause \in Causes : LedgerDiscard(t, cause)

\* ------------------------------------------------- wait_for_transaction
\* The call: mint.rs:223 (mint), mint.rs:245 (consume), or the function on its own.
CallTx == IF pc = "wait_mint" THEN "mintTx" ELSE IF pc = "wait_consume" THEN "consumeTx" ELSE wTx
CallRet == IF pc = "wait_mint" THEN "submit_consume" ELSE IF pc = "wait_consume" THEN "final_sync" ELSE "done"

CallWait ==
    /\ pc \in {"wait_mint", "wait_consume", "wait_any"}
    /\ wTx' = CallTx
    /\ wRet' = CallRet
    /\ lastLookup' = NotRun
    /\ wRes' = NoResult
    /\ synced' = FALSE
    /\ viewAtCall' = <<store, syncBlock>>
    /\ pc' = "w_sync"
    /\ UNCHANGED <<entry, net, store, block, syncBlock, printed, confirmed>>
    /\ naps' = 0
    /\ UNCHANGED <<arg, p2id, mintNote, req, submits, chain, bal, bal0, vault, shown, finalSynced>>

\* Mutant: the loop goes on to the lookup without the resync having refreshed the view
WaitSyncOkStale ==
    /\ pc = "w_sync"
    /\ synced' = TRUE
    /\ pc' = "w_lookup"
    /\ UNCHANGED <<entry, net, store, block, syncBlock, wTx, wRet, lastLookup, wRes,
                   viewAtCall, printed, confirmed>>
    /\ UNCHANGED ext

\* client.sync_state().await? succeeds
WaitSyncOk ==
    /\ pc = "w_sync"
    /\ store' = SyncState(store)
    /\ syncBlock' = block
    /\ synced' = TRUE
    /\ pc' = "w_lookup"
    /\ UNCHANGED <<entry, net, block, wTx, wRet, lastLookup, wRes, viewAtCall,
                   printed, confirmed>>
    /\ vault' = bal[AliceId]
    /\ UNCHANGED <<arg, p2id, mintNote, req, submits, chain, bal, bal0, shown, finalSynced, naps>>

\* Mutant: a failed resync is swallowed and polling goes on after a sleep
WaitSyncErrRetries ==
    /\ pc = "w_sync"
    /\ wRes' = ErrSync
    /\ pc' = "w_sleep"
    /\ UNCHANGED <<entry, net, store, block, syncBlock, wTx, wRet, lastLookup,
                   synced, viewAtCall, printed, confirmed>>
    /\ UNCHANGED ext

\* client.sync_state().await? fails: the ClientError is returned by `?`
WaitSyncErr ==
    /\ pc = "w_sync"
    /\ wRes' = ErrSync
    /\ pc' = "w_ret"
    /\ UNCHANGED <<entry, net, store, block, syncBlock, wTx, wRet, lastLookup,
                   synced, viewAtCall, printed, confirmed>>
    /\ UNCHANGED ext

\* Mutant: a failed lookup is reported as a missing record
WaitLookupErrAsNotFound ==
    /\ pc = "w_lookup"
    /\ lastLookup' = LookupErr
    /\ synced' = FALSE
    /\ wRes' = ErrNotFound(wTx)
    /\ pc' = "w_ret"
    /\ UNCHANGED <<entry, net, store, block, syncBlock, wTx, wRet, viewAtCall,
                   printed, confirmed>>
    /\ naps' = 0
    /\ UNCHANGED <<arg, p2id, mintNote, req, submits, chain, bal, bal0, vault, shown, finalSynced>>

\* get_transactions fails: map_err formats the message, `?` returns it
WaitLookupErr ==
    /\ pc = "w_lookup"
    /\ lastLookup' = LookupErr
    /\ synced' = FALSE
    /\ wRes' = ErrFetch
    /\ pc' = "w_ret"
    /\ UNCHANGED <<entry, net, store, block, syncBlock, wTx, wRet, viewAtCall,
                   printed, confirmed>>
    /\ naps' = 0
    /\ UNCHANGED <<arg, p2id, mintNote, req, submits, chain, bal, bal0, vault, shown, finalSynced>>

\* Mutant: a missing record is treated like Pending (sleep, poll again)
WaitLookupNoneAsPending ==
    /\ pc = "w_lookup"
    /\ Lookup(store, wTx).k = "Absent"
    /\ lastLookup' = Absent
    /\ synced' = FALSE
    /\ pc' = "w_sleep"
    /\ UNCHANGED <<entry, net, store, block, syncBlock, wTx, wRet, wRes, viewAtCall,
                   printed, confirmed>>
    /\ naps' = 0
    /\ UNCHANGED <<arg, p2id, mintNote, req, submits, chain, bal, bal0, vault, shown, finalSynced>>

\* get_transactions gives an empty vector: pop() is None, ok_or_else + `?` returns
WaitLookupNone ==
    /\ pc = "w_lookup"
    /\ Lookup(store, wTx).k = "Absent"
    /\ lastLookup' = Absent
    /\ synced' = FALSE
    /\ wRes' = ErrNotFound(wTx)
    /\ pc' = "w_ret"
    /\ UNCHANGED <<entry, net, store, block, syncBlock, wTx, wRet, viewAtCall,
                   printed, confirmed>>
    /\ naps' = 0
    /\ UNCHANGED <<arg, p2id, mintNote, req, submits, chain, bal, bal0, vault, shown, finalSynced>>

\* get_transactions gives the record: tracked_transaction is bound
WaitLookupSome ==
    /\ pc = "w_lookup"
    /\ Lookup(store, wTx).k # "Absent"
    /\ lastLookup' = Lookup(store, wTx)
    /\ synced' = FALSE
    /\ pc' = "w_match"
    /\ UNCHANGED <<entry, net, store, block, syncBlock, wTx, wRet, wRes, viewAtCall,
                   printed, confirmed>>
    /\ naps' = 0
    /\ UNCHANGED <<arg, p2id, mintNote, req, submits, chain, bal, bal0, vault, shown, finalSynced>>

\* Mutant: the Committed arm prints but does not return
WaitCommittedKeepsPolling ==
    /\ pc = "w_match"
    /\ lastLookup.k = "Committed"
    /\ printed' = IF Len(printed) < 2 THEN Append(printed, lastLookup.b) ELSE printed
    /\ pc' = "w_sleep"
    /\ UNCHANGED <<entry, net, store, block, syncBlock, wTx, wRet, lastLookup, wRes,
                   synced, viewAtCall, confirmed>>
    /\ UNCHANGED ext

\* TransactionStatus::Committed { block_number, .. } => println!; return Ok(())
WaitCommitted ==
    /\ pc = "w_match"
    /\ lastLookup.k = "Committed"
    /\ printed' = Append(printed, lastLookup.b)
    /\ wRes' = OkUnit
    /\ confirmed' = confirmed \cup {wTx}
    /\ pc' = "w_ret"
    /\ UNCHANGED <<entry, net, store, block, syncBlock, wTx, wRet, lastLookup,
                   synced, viewAtCall>>
    /\ UNCHANGED ext

\* Mutant: the Pending arm polls again at once, without sleeping
WaitPendingNoSleep ==
    /\ pc = "w_match"
    /\ lastLookup.k = "Pending"
    /\ pc' = "w_sync"
    /\ UNCHANGED <<entry, net, store, block, syncBlock, wTx, wRet, lastLookup, wRes,
                   synced, viewAtCall, printed, confirmed>>
    /\ UNCHANGED ext

\* TransactionStatus::Pending => tokio::time::sleep(1 s) begins
WaitPending ==
    /\ pc = "w_match"
    /\ lastLookup.k = "Pending"
    /\ pc' = "w_sleep"
    /\ UNCHANGED <<entry, net, store, block, syncBlock, wTx, wRet, lastLookup, wRes,
                   synced, viewAtCall, printed, confirmed>>
    /\ UNCHANGED ext

\* Mutant: after the sleep the loop looks up again without resyncing
WaitSleepSkipsSync ==
    /\ pc = "w_sleep"
    /\ pc' = "w_lookup"
    /\ UNCHANGED <<entry, net, store, block, syncBlock, wTx, wRet, lastLookup, wRes,
                   synced, viewAtCall, printed, confirmed>>
    /\ naps' = naps + 1
    /\ UNCHANGED <<arg, p2id, mintNote, req, submits, chain, bal, bal0, vault, shown, finalSynced>>

\* the sleep ends; the loop starts its next iteration
WaitSleep ==
    /\ pc = "w_sleep"
    /\ pc' = "w_sync"
    /\ UNCHANGED <<entry, net, store, block, syncBlock, wTx, wRet, lastLookup, wRes,
                   synced, viewAtCall, printed, confirmed>>
    /\ naps' = naps + 1
    /\ UNCHANGED <<arg, p2id, mintNote, req, submits, chain, bal, bal0, vault, shown, finalSynced>>

\* Mutant: a discard is retried after a sleep
WaitDiscardedRetries ==
    /\ pc = "w_match"
    /\ lastLookup.k = "Discarded"
    /\ pc' = "w_sleep"
    /\ UNCHANGED <<entry, net, store, block, syncBlock, wTx, wRet, lastLookup, wRes,
                   synced, viewAtCall, printed, confirmed>>
    /\ UNCHANGED ext

\* Mutant: a discard is retried by submitting the transaction again
WaitDiscardedResubmits ==
    /\ pc = "w_match"
    /\ lastLookup.k = "Discarded"
    /\ net' = Submitted(net, wTx)
    /\ store' = Submitted(store, wTx)
    /\ pc' = "w_sleep"
    /\ UNCHANGED <<entry, block, syncBlock, wTx, wRet, lastLookup, wRes,
                   synced, viewAtCall, printed, confirmed>>
    /\ UNCHANGED ext

\* TransactionStatus::Discarded(cause) => return Err(format!(.. {cause:?}))
WaitDiscarded ==
    /\ pc = "w_match"
    /\ lastLookup.k = "Discarded"
    /\ wRes' = ErrDiscarded(lastLookup.c)
    /\ pc' = "w_ret"
    /\ UNCHANGED <<entry, net, store, block, syncBlock, wTx, wRet, lastLookup,
                   synced, viewAtCall, printed, confirmed>>
    /\ UNCHANGED ext

\* Mutant: the caller drops the result and goes on
UnwrapIgnoresErr ==
    /\ pc = "w_ret"
    /\ pc' = wRet
    /\ UNCHANGED <<entry, net, store, block, syncBlock, wTx, wRet, lastLookup, wRes,
                   synced, viewAtCall, printed, confirmed>>
    /\ UNCHANGED ext

\* the caller's .unwrap(): Ok continues, Err panics
Unwrap ==
    /\ pc = "w_ret"
    /\ pc' = IF wRes.k = "Ok" THEN wRet ELSE "aborted"
    /\ UNCHANGED <<entry, net, store, block, syncBlock, wTx, wRet, lastLookup, wRes,
                   synced, viewAtCall, printed, confirmed>>
    /\ UNCHANGED ext

Wait ==
    \/ CallWait
    \/ WaitSyncOk
    \/ WaitSyncErr
    \/ WaitLookupErr
    \/ WaitLookupNone
    \/ WaitLookupSome
    \/ WaitCommitted
    \/ WaitPending
    \/ WaitSleep
    \/ WaitDiscarded
    \/ Unwrap

\* ------------------------------------------------------- the entry points
\* client.sync_state().await.unwrap() right after the client is built
InitSync ==
    /\ pc = "start"
    /\ \/ /\ store' = SyncState(store)
          /\ syncBlock' = block
          /\ vault' = bal[AliceId]
          /\ pc' = "setup"
       \/ /\ pc' = "aborted"
          /\ UNCHANGED <<store, syncBlock, vault>>
    /\ UNCHANGED <<entry, net, block, wTx, wRet, lastLookup, wRes, synced,
                   viewAtCall, printed, confirmed>>
    /\ UNCHANGED <<arg, p2id, mintNote, req, submits, chain, bal,
                   bal0, shown, finalSynced, naps>>

\* alice's account (and the faucet) are created or fetched; add_account / get_account
\* may fail
Setup ==
    /\ pc = "setup"
    /\ pc' \in {IF entry = "deploy" THEN "submit_deploy" ELSE "build_notes", "aborted"}
    /\ UNCHANGED <<entry, net, store, block, syncBlock, wTx, wRet, lastLookup,
                   wRes, synced, viewAtCall, printed, confirmed>>
    /\ UNCHANGED <<arg, p2id, mintNote, req, submits, chain, bal,
                   bal0, vault, shown, finalSynced, naps>>

\* create_p2id_note_exact(..)?, recipient().digest(), create_mint_note(..)
BuildNotes ==
    /\ pc = "build_notes"
    /\ \E serial \in MainSerials :
         LET a == MainNoteArgs(serial)
             r == BuildP2id(a)
         IN /\ arg' = a
            /\ p2id' = r
            /\ \/ /\ r.st = "ok"
                  /\ mintNote' = CreateMintNote(FaucetId, StoredOwnerId, MintRecipient(r.note),
                                                NoteTagFromAccountId(AliceId), amount, Aux, Aux)
                  /\ pc' = "submit_mint"
               \/ /\ pc' = "aborted"
                  /\ UNCHANGED mintNote
    /\ UNCHANGED <<entry, net, store, block, syncBlock, wTx, wRet, lastLookup,
                   wRes, synced, viewAtCall, printed, confirmed>>
    /\ UNCHANGED <<req, submits, chain, bal, bal0, vault, shown,
                   finalSynced, naps>>

\* Mutant: a failed submission of the mint request is tried again
SubmitMintRetries ==
    /\ pc = "submit_mint"
    /\ \/ /\ ~RequestBuilds(MintRequest(mintNote))
          /\ pc' = "aborted"
          /\ UNCHANGED <<net, store, req, submits>>
       \/ /\ RequestBuilds(MintRequest(mintNote))
          /\ submits' = [submits EXCEPT !["mintTx"] = @ + 1]
          /\ req' = [req EXCEPT !["mintTx"] = MintRequest(mintNote)]
          /\ net' = Submitted(net, "mintTx")
          /\ store' = Submitted(store, "mintTx")
          /\ pc' = IF entry = "mint" THEN "wait_mint" ELSE "sleep15"
       \/ /\ RequestBuilds(MintRequest(mintNote))
          /\ submits["mintTx"] < 2
          /\ submits' = [submits EXCEPT !["mintTx"] = @ + 1]
          /\ pc' = "submit_mint"
          /\ req' = [req EXCEPT !["mintTx"] = MintRequest(mintNote)]
          /\ UNCHANGED <<net, store>>
    /\ UNCHANGED <<entry, block, syncBlock, wTx, wRet, lastLookup, wRes, synced,
                   viewAtCall, printed, confirmed>>
    /\ UNCHANGED <<arg, p2id, mintNote, chain, bal, bal0, vault,
                   shown, finalSynced, naps>>

\* TransactionRequestBuilder..build().unwrap();
\* submit_new_transaction(.., mint_transaction_request).await.unwrap()
SubmitMint ==
    /\ pc = "submit_mint"
    /\ \/ /\ ~RequestBuilds(MintRequest(mintNote))
          /\ pc' = "aborted"
          /\ UNCHANGED <<net, store, req, submits>>
       \/ /\ RequestBuilds(MintRequest(mintNote))
          /\ submits' = [submits EXCEPT !["mintTx"] = @ + 1]
          /\ req' = [req EXCEPT !["mintTx"] = MintRequest(mintNote)]
          /\ net' = Submitted(net, "mintTx")
          /\ store' = Submitted(store, "mintTx")
          /\ pc' = IF entry = "mint" THEN "wait_mint" ELSE "sleep15"
       \/ /\ RequestBuilds(MintRequest(mintNote))
          /\ submits' = [submits EXCEPT !["mintTx"] = @ + 1]
          /\ pc' = "aborted"
          /\ req' = [req EXCEPT !["mintTx"] = MintRequest(mintNote)]
          /\ UNCHANGED <<net, store>>
    /\ UNCHANGED <<entry, block, syncBlock, wTx, wRet, lastLookup, wRes, synced,
                   viewAtCall, printed, confirmed>>
    /\ UNCHANGED <<arg, p2id, mintNote, chain, bal, bal0, vault,
                   shown, finalSynced, naps>>

\* main.rs: tokio::time::sleep(Duration::from_secs(15)).await
Sleep15 ==
    /\ pc = "sleep15"
    /\ pc' = "submit_consume"
    /\ UNCHANGED <<entry, net, store, block, syncBlock, wTx, wRet, lastLookup,
                   wRes, synced, viewAtCall, printed, confirmed>>
    /\ UNCHANGED <<arg, p2id, mintNote, req, submits, chain, bal,
                   bal0, vault, shown, finalSynced, naps>>

\* TransactionRequestBuilder..build().unwrap();
\* submit_new_transaction(alice, consume_p2id_note_transaction_request).await.unwrap()
SubmitConsume ==
    /\ pc = "submit_consume"
    /\ \/ /\ ~RequestBuilds(ConsumeRequest(p2id.note))
          /\ pc' = "aborted"
          /\ UNCHANGED <<net, store, req, submits>>
       \/ /\ RequestBuilds(ConsumeRequest(p2id.note))
          /\ submits' = [submits EXCEPT !["consumeTx"] = @ + 1]
          /\ req' = [req EXCEPT !["consumeTx"] = ConsumeRequest(p2id.note)]
          /\ net' = Submitted(net, "consumeTx")
          /\ store' = Submitted(store, "consumeTx")
          /\ pc' = IF entry = "mint" THEN "wait_consume" ELSE "done"
       \/ /\ RequestBuilds(ConsumeRequest(p2id.note))
          /\ submits' = [submits EXCEPT !["consumeTx"] = @ + 1]
          /\ pc' = "aborted"
          /\ req' = [req EXCEPT !["consumeTx"] = ConsumeRequest(p2id.note)]
          /\ UNCHANGED <<net, store>>
    /\ UNCHANGED <<entry, block, syncBlock, wTx, wRet, lastLookup, wRes, synced,
                   viewAtCall, printed, confirmed>>
    /\ UNCHANGED <<arg, p2id, mintNote, chain, bal, bal0, vault,
                   shown, finalSynced, naps>>

\* deploy.rs: TransactionRequestBuilder..custom_script(..).build().unwrap();
\* submit_new_transaction(faucet, tx_deployment_request).await.unwrap()
SubmitDeploy ==
    /\ pc = "submit_deploy"
    /\ \/ /\ ~RequestBuilds(DeployRequest)
          /\ pc' = "aborted"
          /\ UNCHANGED <<net, store, req, submits>>
       \/ /\ RequestBuilds(DeployRequest)
          /\ submits' = [submits EXCEPT !["deployTx"] = @ + 1]
          /\ req' = [req EXCEPT !["deployTx"] = DeployRequest]
          /\ net' = Submitted(net, "deployTx")
          /\ store' = Submitted(store, "deployTx")
          /\ pc' = "done"
       \/ /\ RequestBuilds(DeployRequest)
          /\ submits' = [submits EXCEPT !["deployTx"] = @ + 1]
          /\ pc' = "aborted"
          /\ req' = [req EXCEPT !["deployTx"] = DeployRequest]
          /\ UNCHANGED <<net, store>>
    /\ UNCHANGED <<entry, block, syncBlock, wTx, wRet, lastLookup, wRes, synced,
                   viewAtCall, printed, confirmed>>
    /\ UNCHANGED <<arg, p2id, mintNote, chain, bal, bal0, vault,
                   shown, finalSynced, naps>>

\* mint.rs: client.sync_state().await.unwrap() after the consume was confirmed
FinalSync ==
    /\ pc = "final_sync"
    /\ \/ /\ store' = SyncState(store)
          /\ syncBlock' = block
          /\ vault' = bal[AliceId]
          /\ finalSynced' = TRUE
          /\ pc' = "read_balance"
       \/ /\ pc' = "aborted"
          /\ UNCHANGED <<store, syncBlock, vault, finalSynced>>
    /\ UNCHANGED <<entry, net, block, wTx, wRet, lastLookup, wRes, synced,
                   viewAtCall, printed, confirmed>>
    /\ UNCHANGED <<arg, p2id, mintNote, req, submits, chain, bal,
                   bal0, shown, naps>>

\* mint.rs: get_account(alice), vault().get_balance(faucet_account_id), println!
ReadBalance ==
    /\ pc = "read_balance"
    /\ \/ /\ shown' = <<vault[FaucetId]>>
          /\ pc' = "done"
       \/ /\ pc' = "aborted"
          /\ UNCHANGED shown
    /\ UNCHANGED <<entry, net, store, block, syncBlock, wTx, wRet, lastLookup,
                   wRes, synced, viewAtCall, printed, confirmed>>
    /\ UNCHANGED <<arg, p2id, mintNote, req, submits, chain, bal,
                   bal0, vault, finalSynced, naps>>

Main ==
    \/ InitSync
    \/ Setup
    \/ BuildNotes
    \/ SubmitMint
    \/ Sleep15
    \/ SubmitConsume
    \/ SubmitDeploy
    \/ FinalSync
    \/ ReadBalance

\* ---------------------------------------------- the functions on any argument
\* create_p2id_note_exact applied to the arguments drawn at the start
BuildAnyNote ==
    /\ pc = "note_any"
    /\ p2id' = BuildP2id(arg)
    /\ pc' = "done"
    /\ UNCHANGED <<entry, net, store, block, syncBlock, wTx, wRet, lastLookup,
                   wRes, synced, viewAtCall, printed, confirmed>>
    /\ UNCHANGED <<arg, mintNote, req, submits, chain, bal, bal0,
                   vault, shown, finalSynced, naps>>

\* a request of any content is built and, when it builds, submitted
SubmitAnyRequest ==
    /\ pc = "request_any"
    /\ \/ /\ ~RequestBuilds(arg)
          /\ pc' = "aborted"
          /\ UNCHANGED <<net, store, req, submits>>
       \/ /\ RequestBuilds(arg)
          /\ submits' = [submits EXCEPT ![wTx] = @ + 1]
          /\ req' = [req EXCEPT ![wTx] = arg]
          /\ net' = Submitted(net, wTx)
          /\ store' = Submitted(store, wTx)
          /\ pc' = "done"
       \/ /\ RequestBuilds(arg)
          /\ submits' = [submits EXCEPT ![wTx] = @ + 1]
          /\ req' = [req EXCEPT ![wTx] = arg]
          /\ pc' = "aborted"
          /\ UNCHANGED <<net, store>>
    /\ UNCHANGED <<entry, block, syncBlock, wTx, wRet, lastLookup, wRes, synced,
                   viewAtCall, printed, confirmed>>
    /\ UNCHANGED <<arg, p2id, mintNote, chain, bal, bal0, vault,
                   shown, finalSynced, naps>>

Harness == BuildAnyNote \/ SubmitAnyRequest

Program == Wait \/ Main \/ Harness

Next == Program \/ Ledger

Spec == Init /\ [][Next]_vars

\* The task is run to completion by the runtime, and a sleep ends: the program's
\* next step is eventually taken.  Nothing obliges the ledger to act.
FairSpec == Spec /\ WF_vars(Program)

\* ================================================================ claims
StepFrom(p) == pc = p /\ pc' # pc

\* C1: in wait_for_transaction every lookup is preceded by a resync completed in the
\* same loop iteration (none is issued without a resync since the previous lookup or
\* the start of the call), and the status that is matched is the one of the view as
\* of that resync.
C1_ResyncBeforeLookup ==
    /\ pc = "w_lookup" => synced
    /\ pc = "w_match" => (~synced /\ lastLookup = Lookup(store, wTx))

\* a lookup about to happen in a second iteration, after a Pending and a new resync
C1_Witness == pc = "w_lookup" /\ synced /\ lastLookup.k = "Pending"

\* C2: in every entry point that mints and then consumes, the consume transaction is
\* submitted only after wait_for_transaction observed the mint as Committed.
C2_ConsumeAfterObservedCommit ==
    (entry \in {"main", "mint"} /\ net["consumeTx"].k # "Absent") => "mintTx" \in confirmed

\* C3: wait_for_transaction terminates for every ledger behaviour, also when the
\* transaction stays Pending for ever.
C3_WaitTerminates == (pc \in WaitPcs) ~> (pc = "w_ret")

\* C4: once the ledger has moved the transaction to Committed or Discarded, the
\* tracker eventually returns, and unless a resync or lookup failed (an error, or no
\* record found) what it returns matches: Ok for Committed, the discard error with the
\* ledger's cause for Discarded.
C4_Failed == wRes \in {ErrSync, ErrFetch, ErrNotFound(wTx)}
C4_Matches(t) ==
    \/ net[t].k = "Committed" /\ wRes = OkUnit
    \/ net[t].k = "Discarded" /\ wRes = ErrDiscarded(net[t].c)
C4_TerminalIsReported ==
    \A t \in TxIds :
        (pc \in WaitPcs /\ wTx = t /\ Terminal(net[t]))
            ~> (pc = "w_ret" /\ wTx = t /\ (C4_Matches(t) \/ C4_Failed))

\* the view moved forward during the call and the ledger's discard was returned
C4_Witness ==
    /\ pc = "w_ret"
    /\ net[wTx].k = "Discarded"
    /\ wRes = ErrDiscarded(net[wTx].c)
    /\ syncBlock > viewAtCall[2]

\* C5 as stated: on Committed with block height h the call returns h as its success value.
C5_ReturnsHeight == (pc = "w_ret" /\ wRes.k = "Ok") => wRes.val = <<lastLookup.b>>

\* C5, amended: on a lookup that gives Committed with block height h the call prints h,
\* returns Ok(()) (the unit value) and ends: the next step is the caller's, with no
\* further resync, lookup or sleep, and the view is left as it is.
C5_CommittedEndsCall ==
    [][ /\ (StepFrom("w_match") /\ lastLookup.k = "Committed")
            => /\ pc' = "w_ret"
               /\ wRes' = OkUnit
               /\ printed' = Append(printed, lastLookup.b)
               /\ store' = store /\ syncBlock' = syncBlock
        /\ (StepFrom("w_ret") /\ wRes.k = "Ok") => pc' = wRet /\ pc' \notin WaitPcs
      ]_vars

C5_Witness ==
    /\ pc = "w_ret"
    /\ wRes = OkUnit
    /\ lastLookup.k = "Committed"
    /\ printed # <<>>
    /\ printed[Len(printed)] = lastLookup.b

\* C6: on a lookup that gives Discarded(cause) the call returns the discard error
\* carrying that cause (distinct causes give distinct errors) and ends: no further
\* resync, lookup or sleep; the caller's unwrap aborts the run.
C6_DiscardedEndsCall ==
    [][ /\ (StepFrom("w_match") /\ lastLookup.k = "Discarded")
            => /\ pc' = "w_ret"
               /\ wRes' = ErrDiscarded(lastLookup.c)
               /\ lastLookup.c = net[wTx].c
               /\ \A other \in Causes \ {lastLookup.c} : wRes' # ErrDiscarded(other)
        /\ (StepFrom("w_ret") /\ wRes.k = "Err") => pc' = "aborted"
      ]_vars

C6_Witness ==
    /\ pc = "aborted"
    /\ lastLookup.k = "Discarded"
    /\ wRes = ErrDiscarded("Expired")

\* C7: when the lookup finds no record for the id the call returns the not-found
\* error naming the id, which differs from Ok, from every discard error and from the
\* resync and lookup failures, and it does not sleep or poll again: retrying is the
\* caller's business.
NotFoundStep == StepFrom("w_lookup") /\ Lookup(store, wTx).k = "Absent" /\ lastLookup'.k # "Err"
C7_NotFoundIsSignalled ==
    [][ NotFoundStep
            => /\ pc' = "w_ret"
               /\ wRes' = ErrNotFound(wTx)
               /\ wRes' \notin {OkUnit, ErrSync, ErrFetch}
               /\ \A cause \in Causes : wRes' # ErrDiscarded(cause)
               /\ \A t \in TxIds \ {wTx} : wRes' # ErrNotFound(t)
      ]_vars

C7_Witness == pc = "w_ret" /\ lastLookup.k = "Absent" /\ wRes = ErrNotFound(wTx)

\* C8 as stated: a Pending or a not-found lookup is followed by a sleep and another
\* poll; a Discarded lookup or a failed resync/lookup never is.
PendingStep == StepFrom("w_match") /\ lastLookup.k = "Pending"
C8_SleepOnPendingAndNotFound ==
    [][ /\ PendingStep => pc' = "w_sleep"
        /\ NotFoundStep => pc' = "w_sleep"
        /\ StepFrom("w_sleep") => pc' = "w_sync"
        /\ (pc \in WaitPcs /\ wRes'.k = "Err") => pc' = "w_ret"
        /\ StepFrom("w_ret") => pc' \notin WaitPcs
      ]_vars

\* C8, amended: sleep-and-retry is applied to the Pending observation and to no other
\* outcome: a Pending lookup is followed by a sleep and then a new resync, a sleep is
\* entered only from a Pending lookup, and a not-found lookup, a Discarded lookup or a
\* failed resync/lookup ends the call with an error, with no sleep and no further poll.
C8_SleepOnlyOnPending ==
    [][ /\ PendingStep => pc' = "w_sleep"
        /\ (pc' = "w_sleep" /\ pc # "w_sleep") => PendingStep
        /\ StepFrom("w_sleep") => pc' = "w_sync"
        /\ NotFoundStep => pc' = "w_ret" /\ wRes'.k = "Err"
        /\ (pc \in WaitPcs /\ wRes'.k = "Err") => pc' = "w_ret"
        /\ (StepFrom("w_ret") /\ wRes.k = "Err") => pc' = "aborted"
        /\ StepFrom("w_ret") => pc' \notin WaitPcs
      ]_vars

\* a second poll is under way after a Pending lookup and a sleep
C8_Witness == pc = "w_sync" /\ lastLookup.k = "Pending" /\ syncBlock = block /\ block > 0

\* C9: a status is monotonic: once a lookup of an id gives Committed or Discarded,
\* every later lookup of that id gives the same; and the tracker only observes: none
\* of its steps changes the network's status, and only its resync changes the view.
C9_StatusMonotonic ==
    [][ /\ \A t \in TxIds :
              Terminal(Lookup(store, t)) => Lookup(store', t) = Lookup(store, t)
        /\ \A t \in TxIds : Terminal(net[t]) => net'[t] = net[t]
        /\ (pc \in WaitPcs \cup {"w_ret"} /\ pc' # pc)
              => /\ net' = net
                 /\ pc # "w_sync" => store' = store
      ]_vars

\* the mint is terminal in the view and the view was resynced again for the consume
C9_Witness ==
    /\ wTx = "consumeTx"
    /\ lastLookup.k = "Committed"
    /\ store["mintTx"].k = "Committed"
    /\ store["mintTx"].b < lastLookup.b

\* C10: a call of wait_for_transaction that may not wait at all (max_wait = 0) returns
\* Timeout and leaves the synchronized view as it found it.  wait_for_transaction has
\* no max_wait: as far as the code goes every call is such a call.
C10_ZeroWaitIsTimeout ==
    pc = "w_ret" =>
        /\ wRes.k = "Err" /\ wRes.msg = <<"Timeout">>
        /\ viewAtCall = <<store, syncBlock>>

\* ---------------------------------------------------------------------------
\* C11: balance conservation.  In a faucet run the recipient's balance of the
\* faucet's asset is its starting balance plus `amount` (50) once the consume
\* transaction is committed and unchanged before that; no other balance of
\* any account moves; and the balance the run prints is exactly the amount
\* minted.
C11_Credited == IF net["consumeTx"].k = "Committed" THEN 50 ELSE 0
C13_SubmittedOnce ==
    /\ \A t \in TxIds : submits[t] <= 1
    /\ \A t \in TxIds :
          (submits[t] = 1 /\ net[t].k = "Absent") => pc = "aborted"
    /\ (entry \in Entries \ {"wait"} /\ pc \in WaitPcs \cup {"w_ret"}) =>
          /\ submits[wTx] = 1
          /\ net[wTx].k # "Absent"
C13_Witness ==
    /\ entry = "mint" /\ pc = "aborted"
    /\ submits["consumeTx"] = 1 /\ net["consumeTx"].k = "Absent"
    /\ "mintTx" \in confirmed

\* ---------------------------------------------------------------------------
\* C14: a request with no output notes, no input notes and no script is
\* refused when it is built, so every request that reaches submit has at least
\* one of them.
C14_Empty(r) == Len(r.outputs) = 0 /\ Len(r.inputs) = 0 /\ Len(r.script) = 0
C14_NoEmptyRequestSubmitted ==
    /\ \A t \in TxIds : submits[t] > 0 => ~C14_Empty(req[t])
    /\ (entry = "request" /\ C14_Empty(arg)) =>
          /\ submits[wTx] = 0
          /\ net[wTx].k = "Absent"
          /\ pc \in {"request_any", "aborted"}
C14_Witness ==
    /\ entry = "request" /\ C14_Empty(arg)
    /\ pc = "aborted" /\ submits[wTx] = 0

\* ---------------------------------------------------------------------------
\* C15 as stated: a failure of the resync or of the status lookup ends the
\* call with the failure itself, unchanged.
C15_SyncFails == StepFrom("w_sync") /\ ~synced'
C15_LookupFails == StepFrom("w_lookup") /\ lastLookup' = LookupErr
C15_PropagatedUnchanged ==
    [][ /\ C15_SyncFails => (pc' = "w_ret" /\ wRes' = ErrSync)
        /\ C15_LookupFails => (pc' = "w_ret" /\ wRes' = FetchFailure)
      ]_vars
\* C15: a failed resync ends the call with the client's error itself; a failed
\* lookup ends the call with a new String error whose text is a fixed prefix
\* followed by the text of the client's error.  Either error differs from
\* every discard and not-found error, and the caller aborts on it.
C15_NotOtherOutcome(r) ==
    /\ r.k = "Err"
    /\ r \notin {ErrDiscarded(c) : c \in Causes}
    /\ r \notin {ErrNotFound(t) : t \in TxIds}
C15_NetworkFailureEndsCall ==
    [][ /\ C15_SyncFails =>
              /\ pc' = "w_ret" /\ wRes' = ErrSync
              /\ C15_NotOtherOutcome(wRes')
        /\ C15_LookupFails =>
              /\ pc' = "w_ret"
              /\ wRes'.ty = "String"
              /\ wRes'.msg =
                    <<"Failed to fetch transaction status while waiting for commitment: ",
                      FetchFailure.msg[1]>>
              /\ C15_NotOtherOutcome(wRes')
        /\ (StepFrom("w_ret") /\ wRes \in {ErrSync, ErrFetch}) => pc' = "aborted"
      ]_vars
C15_Witness ==
    /\ pc = "aborted" /\ lastLookup = LookupErr /\ wRes = ErrFetch
    /\ wRes # FetchFailure

\* ---------------------------------------------------------------------------
\* C18: on a Pending observation the call is not ended and the tracker sleeps;
\* the sleep is followed by a resync; and a lookup that follows a Pending
\* observation has exactly one sleep and a new resync behind it.
C18_SleepThenResync ==
    [][ /\ PendingStep => (pc' = "w_sleep" /\ wRes' = NoResult /\ naps' = 0)
        /\ StepFrom("w_sleep") =>
              (pc' = "w_sync" /\ naps' = 1 /\ ~synced' /\ lastLookup' = lastLookup)
        /\ (StepFrom("w_lookup") /\ lastLookup.k = "Pending") =>
              (naps = 1 /\ synced)
      ]_vars
C18_Witness ==
    /\ pc = "w_lookup" /\ lastLookup.k = "Pending"
    /\ naps = 1 /\ synced /\ wRes = NoResult

\* ---------------------------------------------------------------------------
\* C19: a built P2ID note has the inputs [target.suffix, target.prefix], the
\* tag derived from the target and the given sender in its metadata; any other
\* call with the same target, whatever its other arguments, gives the same
\* inputs and tag.
C19_TargetDetermines ==
    p2id.st = "ok" =>
        /\ p2id.note.inputs = <<arg.target.suffix, arg.target.prefix>>
        /\ p2id.note.tag = NoteTagFromAccountId(arg.target)
        /\ p2id.note.sender = arg.sender
        /\ \A a \in NoteArgs :
              (a.target = arg.target /\ BuildP2id(a).st = "ok") =>
                  /\ BuildP2id(a).note.inputs = p2id.note.inputs
                  /\ BuildP2id(a).note.tag = p2id.note.tag
C19_Witness ==
    /\ entry = "note" /\ p2id.st = "ok"
    /\ arg.target = OtherFaucetId /\ arg.sender = BobId
    /\ p2id.note.inputs = <<"aS", "fP">>

\* ---------------------------------------------------------------------------
\* C20: the balance is read only in a run where both waits returned Ok, the
\* consume transaction is committed in the local view, and a further resync
\* was made after the consume wait; a wait that returns an error aborts the
\* run, and an aborted run submits nothing and reads no balance.
C20_BalanceReadOnlyAfterCommit ==
    [][ /\ shown' # shown =>
              /\ entry = "mint" /\ finalSynced
              /\ {"mintTx", "consumeTx"} \subseteq confirmed
              /\ store["consumeTx"].k = "Committed"
        /\ (finalSynced' /\ ~finalSynced) => "consumeTx" \in confirmed
        /\ (StepFrom("w_ret") /\ wRes.k = "Err") => pc' = "aborted"
        /\ pc = "aborted" =>
              (pc' = "aborted" /\ submits' = submits /\ shown' = shown)
      ]_vars
C20_Witness ==
    /\ entry = "mint" /\ pc = "done" /\ shown # <<>>
    /\ finalSynced /\ syncBlock = block
    /\ "consumeTx" \in confirmed

====
